---------------------------- MODULE Spec2Model ----------------------------
(***************************************************************************)
(* Traversal, search and backfill-policy helpers of package catalog        *)
(* (pkg/sql/catalog/table_elements.go) over an immutable table-descriptor  *)
(* snapshot.                                                               *)
(*                                                                         *)
(* A behaviour is one call of one helper on one snapshot: Init draws the   *)
(* snapshot, a *Call action draws the arguments, and the loop of the       *)
(* helper then runs one iteration per step until it returns.  Instead of   *)
(* a call, a behaviour can follow one table element through the mutation   *)
(* lifecycle (add path, drop path, rollback).                              *)
(***************************************************************************)
EXTENDS Naturals, Sequences, FiniteSets

VARIABLES
    desc,   \* the table-descriptor snapshot the helpers read
    pc,     \* "idle" (nothing called yet), "loop" (inside the range loop), "done"
    op,     \* name of the exported function that was called
    opts,   \* IndexOpts argument of ForEachIndex / FindIndex
    slice,  \* the []Index the range loop iterates over
    i,      \* number of elements of slice the loop has consumed
    calls,  \* callback invocations so far: <<[idx, out]>>, in order
    test,   \* FindIndex/findIndex: IDs of the indexes on which test() is true
    col,    \* ColumnNeedsBackfill: the Column argument
    ret,    \* return value of the call, meaningful when pc = "done"
    otherCols,  \* UserDefinedTypeColsHaveSameVersion: otherDesc.UserDefinedTypeColumns()
    mutations,  \* HasConcurrentSchemaChanges: table.AllMutations()
    receiver,   \* Index.Ordinal: the index it is called on
    elem        \* a table element moving through the mutation lifecycle

vars == <<desc, pc, op, opts, slice, i, calls, test, col, ret,
          otherCols, mutations, receiver, elem>>

\* What the calls of the traversal, search and backfill helpers leave alone.
others == <<otherCols, mutations, receiver, elem>>

-----------------------------------------------------------------------------
(* Bounds *)

\* Largest number of non-primary indexes (public + mutation) on a snapshot.
MaxNonPrimary == 2

-----------------------------------------------------------------------------
(* Values *)

nil == "nil"
StopIteration == "StopIteration"
Errors == {"err1", "err2"}
VisitorReturns == {nil, StopIteration} \cup Errors

\* The nil Index that FindIndex returns when nothing matches.
NilIndex == [ID |-> 0, Primary |-> FALSE, Direction |-> "NONE"]

\* No table element: the lifecycle has not been entered.
NoElement == [Kind |-> "none", State |-> "ABSENT", Direction |-> "NONE",
              MutationID |-> 0, Rollback |-> FALSE]

\* iterutil.Done: is err the early-stop signal.
Done(err) == err = StopIteration

-----------------------------------------------------------------------------
(* Table elements and the descriptor snapshot *)

\* TableElementMaybeMutation.Adding / Dropped
Adding(e) == e.Direction = "ADD"
Dropped(e) == e.Direction = "DROP"

\* Index.Primary
Primary(idx) == idx.Primary

MkIndex(id, primary, dir) == [ID |-> id, Primary |-> primary, Direction |-> dir]

\* A snapshot with k public non-primary indexes and one mutation index per
\* entry of dirs, in mutation-queue order.  The primary index is public.
MkDesc(physical, k, dirs) ==
    [IsPhysicalTable |-> physical,
     PrimaryIndex    |-> MkIndex(1, TRUE, "NONE"),
     Indexes         |-> [j \in 1..k |-> MkIndex(1 + j, FALSE, "NONE")],
     Mutations       |-> [j \in 1..Len(dirs) |-> MkIndex(1 + k + j, FALSE, dirs[j])]]

MutationQueues == UNION {[1..m -> {"ADD", "DROP"}] : m \in 0..MaxNonPrimary}

TableDescriptors ==
    UNION {{MkDesc(p, k, dirs) :
               p \in BOOLEAN,
               dirs \in {d \in MutationQueues : k + Len(d) <= MaxNonPrimary}} :
           k \in 0..MaxNonPrimary}

\* Variant of the canonical order: non-public indexes before the public
\* non-primary ones.
AllIndexes_MutationsFirst(d) == <<d.PrimaryIndex>> \o d.Mutations \o d.Indexes

\* TableDescriptor.AllIndexes: primary, then public non-primary, then
\* non-public indexes in mutation order (see Index.Ordinal).
AllIndexes(d) == <<d.PrimaryIndex>> \o d.Indexes \o d.Mutations

\* TableDescriptor.IsPhysicalTable
IsPhysicalTable(d) == d.IsPhysicalTable

IndexOpts == [NonPhysicalPrimaryIndex : BOOLEAN,
              AddMutations            : BOOLEAN,
              DropMutations           : BOOLEAN]

NoOpts == [NonPhysicalPrimaryIndex |-> FALSE, AddMutations |-> FALSE,
           DropMutations |-> FALSE]

\* The slices a view accessor of the descriptor (ActiveIndexes, NonDropIndexes,
\* PartialIndexes, ...) can hand to forEachIndex / findIndex: subsequences of
\* AllIndexes in canonical order.
ViewSlices(d) ==
    {SelectSeq(AllIndexes(d), LAMBDA x : x.ID \in S) :
        S \in SUBSET {AllIndexes(d)[j].ID : j \in 1..Len(AllIndexes(d))}}

ForEachHelpers ==
    {"ForEachActiveIndex", "ForEachNonDropIndex", "ForEachPartialIndex",
     "ForEachNonPrimaryIndex", "ForEachPublicNonPrimaryIndex",
     "ForEachWritableNonPrimaryIndex", "ForEachDeletableNonPrimaryIndex",
     "ForEachDeleteOnlyNonPrimaryIndex"}

FindHelpers ==
    {"FindActiveIndex", "FindNonDropIndex", "FindPartialIndex",
     "FindPublicNonPrimaryIndex", "FindWritableNonPrimaryIndex",
     "FindDeletableNonPrimaryIndex", "FindNonPrimaryIndex",
     "FindDeleteOnlyNonPrimaryIndex"}

-----------------------------------------------------------------------------
(* isIndexInSearchSet *)

\* Variant: the DropMutations option is tested against add mutations and the
\* AddMutations option against drop mutations.
isIndexInSearchSet_SwappedDirections(d, o, idx) ==
    IF ~o.NonPhysicalPrimaryIndex /\ Primary(idx) /\ ~IsPhysicalTable(d) THEN FALSE
    ELSE IF ~o.DropMutations /\ Adding(idx) THEN FALSE
    ELSE IF ~o.AddMutations /\ Dropped(idx) THEN FALSE
    ELSE TRUE

\* Variant: the non-physical primary index is not filtered out.
isIndexInSearchSet_NoPrimaryCheck(d, o, idx) ==
    IF ~o.AddMutations /\ Adding(idx) THEN FALSE
    ELSE IF ~o.DropMutations /\ Dropped(idx) THEN FALSE
    ELSE TRUE

isIndexInSearchSet(d, o, idx) ==
    IF ~o.NonPhysicalPrimaryIndex /\ Primary(idx) /\ ~IsPhysicalTable(d) THEN FALSE
    ELSE IF ~o.AddMutations /\ Adding(idx) THEN FALSE
    ELSE IF ~o.DropMutations /\ Dropped(idx) THEN FALSE
    ELSE TRUE

-----------------------------------------------------------------------------
Init ==
    /\ desc \in TableDescriptors
    /\ pc = "idle"
    /\ op = "none"
    /\ opts = NoOpts
    /\ slice = <<>>
    /\ i = 0
    /\ calls = <<>>
    /\ test = {}
    /\ col = "none"
    /\ ret = "pending"
    /\ otherCols = <<>>
    /\ mutations = <<>>
    /\ receiver = NilIndex
    /\ elem = NoElement

-----------------------------------------------------------------------------
(* ForEachIndex *)

\* Entry: `range desc.AllIndexes()` evaluates the slice once.
ForEachIndexCall ==
    /\ pc = "idle"
    /\ \E o \in IndexOpts : opts' = o
    /\ op' = "ForEachIndex"
    /\ slice' = AllIndexes(desc)
    /\ pc' = "loop"
    /\ UNCHANGED <<others, desc, i, calls, test, col, ret>>

\* Loop iteration on an index outside the search set: continue.
ForEachIndexSkip ==
    /\ pc = "loop" /\ op = "ForEachIndex"
    /\ i < Len(slice)
    /\ ~isIndexInSearchSet(desc, opts, slice[i + 1])
    /\ i' = i + 1
    /\ UNCHANGED <<others, desc, pc, op, opts, slice, calls, test, col, ret>>

\* Variant: every non-nil err ends the loop with nil.
ForEachIndexOnErr_Swallow(err) == nil

\* What the loop returns when f(idx) gave a non-nil err.
ForEachIndexOnErr(err) == IF Done(err) THEN nil ELSE err

\* Loop iteration on an index of the search set: call f(idx).
ForEachIndexVisit ==
    /\ pc = "loop" /\ op = "ForEachIndex"
    /\ i < Len(slice)
    /\ isIndexInSearchSet(desc, opts, slice[i + 1])
    /\ \E err \in VisitorReturns :
          /\ calls' = Append(calls, [idx |-> slice[i + 1], out |-> err])
          /\ IF err # nil
                THEN /\ ret' = ForEachIndexOnErr(err)
                     /\ pc' = "done"
                     /\ i' = i
                ELSE /\ i' = i + 1
                     /\ UNCHANGED <<pc, ret>>
    /\ UNCHANGED <<others, desc, op, opts, slice, test, col>>

\* The range is exhausted: return nil.
ForEachIndexReturn ==
    /\ pc = "loop" /\ op = "ForEachIndex"
    /\ i = Len(slice)
    /\ ret' = nil
    /\ pc' = "done"
    /\ UNCHANGED <<others, desc, op, opts, slice, i, calls, test, col>>

-----------------------------------------------------------------------------
(* forEachIndex and the ForEach*Index helpers built on it *)

\* Entry through one of the helpers: forEachIndex(desc.<View>Indexes(), f).
forEachIndexCall ==
    /\ pc = "idle"
    /\ \E h \in ForEachHelpers : op' = h
    /\ \E s \in ViewSlices(desc) : slice' = s
    /\ pc' = "loop"
    /\ UNCHANGED <<others, desc, opts, i, calls, test, col, ret>>

\* Variant: the early-stop signal is returned to the caller like any error.
forEachIndexOnErr_Propagate(err) == err

\* What the loop returns when f(idx) gave a non-nil err.
forEachIndexOnErr(err) == IF Done(err) THEN nil ELSE err

\* Loop iteration: call f(idx).
forEachIndexVisit ==
    /\ pc = "loop" /\ op \in ForEachHelpers
    /\ i < Len(slice)
    /\ \E err \in VisitorReturns :
          /\ calls' = Append(calls, [idx |-> slice[i + 1], out |-> err])
          /\ IF err # nil
                THEN /\ ret' = forEachIndexOnErr(err)
                     /\ pc' = "done"
                     /\ i' = i
                ELSE /\ i' = i + 1
                     /\ UNCHANGED <<pc, ret>>
    /\ UNCHANGED <<others, desc, op, opts, slice, test, col>>

\* The range is exhausted: return nil.
forEachIndexReturn ==
    /\ pc = "loop" /\ op \in ForEachHelpers
    /\ i = Len(slice)
    /\ ret' = nil
    /\ pc' = "done"
    /\ UNCHANGED <<others, desc, op, opts, slice, i, calls, test, col>>

-----------------------------------------------------------------------------
(* FindIndex *)

\* The test callbacks: a predicate on indexes, given by the IDs it accepts.
Tests(d) == SUBSET {AllIndexes(d)[j].ID : j \in 1..Len(AllIndexes(d))}

\* Variant: the condition is negated.
FindIndexMatches_Negated(idx) == idx.ID \notin test

\* The condition `if test(idx)` of the loops of FindIndex and findIndex.
FindIndexMatches(idx) == idx.ID \in test

FindIndexCall ==
    /\ pc = "idle"
    /\ \E o \in IndexOpts : opts' = o
    /\ \E t \in Tests(desc) : test' = t
    /\ op' = "FindIndex"
    /\ slice' = AllIndexes(desc)
    /\ pc' = "loop"
    /\ UNCHANGED <<others, desc, i, calls, col, ret>>

\* Loop iteration on an index outside the search set: continue.
FindIndexSkip ==
    /\ pc = "loop" /\ op = "FindIndex"
    /\ i < Len(slice)
    /\ ~isIndexInSearchSet(desc, opts, slice[i + 1])
    /\ i' = i + 1
    /\ UNCHANGED <<others, desc, pc, op, opts, slice, calls, test, col, ret>>

\* Loop iteration on an index of the search set: return it if test(idx).
FindIndexTest ==
    /\ pc = "loop" /\ op = "FindIndex"
    /\ i < Len(slice)
    /\ isIndexInSearchSet(desc, opts, slice[i + 1])
    /\ calls' = Append(calls, [idx |-> slice[i + 1], out |-> slice[i + 1].ID \in test])
    /\ IF FindIndexMatches(slice[i + 1])
          THEN /\ ret' = slice[i + 1]
               /\ pc' = "done"
               /\ i' = i
          ELSE /\ i' = i + 1
               /\ UNCHANGED <<pc, ret>>
    /\ UNCHANGED <<others, desc, op, opts, slice, test, col>>

\* The range is exhausted: return nil.
FindIndexReturn ==
    /\ pc = "loop" /\ op = "FindIndex"
    /\ i = Len(slice)
    /\ ret' = NilIndex
    /\ pc' = "done"
    /\ UNCHANGED <<others, desc, op, opts, slice, i, calls, test, col>>

-----------------------------------------------------------------------------
(* findIndex and the Find*Index helpers built on it *)

\* Entry through one of the helpers: findIndex(desc.<View>Indexes(), test).
findIndexCall ==
    /\ pc = "idle"
    /\ \E h \in FindHelpers : op' = h
    /\ \E s \in ViewSlices(desc) : slice' = s
    /\ \E t \in Tests(desc) : test' = t
    /\ pc' = "loop"
    /\ UNCHANGED <<others, desc, opts, i, calls, col, ret>>

\* Loop iteration: return idx if test(idx).
findIndexTest ==
    /\ pc = "loop" /\ op \in FindHelpers
    /\ i < Len(slice)
    /\ calls' = Append(calls, [idx |-> slice[i + 1], out |-> slice[i + 1].ID \in test])
    /\ IF FindIndexMatches(slice[i + 1])
          THEN /\ ret' = slice[i + 1]
               /\ pc' = "done"
               /\ i' = i
          ELSE /\ i' = i + 1
               /\ UNCHANGED <<pc, ret>>
    /\ UNCHANGED <<others, desc, op, opts, slice, test, col>>

\* The range is exhausted: return nil.
findIndexReturn ==
    /\ pc = "loop" /\ op \in FindHelpers
    /\ i = Len(slice)
    /\ ret' = NilIndex
    /\ pc' = "done"
    /\ UNCHANGED <<others, desc, op, opts, slice, i, calls, test, col>>

-----------------------------------------------------------------------------
(* ColumnNeedsBackfill *)

\* The Column arguments, by what ColumnNeedsBackfill reads of them.
\* DefaultExpr: "none" (no DEFAULT), "NULL" (DEFAULT NULL), "expr" (any other).
Columns == [IsVirtual   : BOOLEAN,
            Direction   : {"NONE", "ADD", "DROP"},
            DefaultExpr : {"none", "NULL", "expr"},
            Nullable    : BOOLEAN,
            IsComputed  : BOOLEAN]

\* Column.IsVirtual, Column.HasDefault, Column.IsNullable, Column.IsComputed
IsVirtual(c) == c.IsVirtual
HasDefault(c) == c.DefaultExpr # "none"
IsNullable(c) == c.Nullable
IsComputed(c) == c.IsComputed

\* descpb.ColumnDescriptor.HasNullDefault: the default expression is NULL.
HasNullDefault(c) == HasDefault(c) /\ c.DefaultExpr = "NULL"

\* Variant: the drop check comes before the virtual check.
ColumnNeedsBackfill_DropFirst(c) ==
    IF Dropped(c) THEN TRUE
    ELSE IF IsVirtual(c) THEN FALSE
    ELSE IF HasNullDefault(c) THEN FALSE
    ELSE HasDefault(c) \/ ~IsNullable(c) \/ IsComputed(c)

\* Variant: no drop check.
ColumnNeedsBackfill_NoDropCheck(c) ==
    IF IsVirtual(c) THEN FALSE
    ELSE IF HasNullDefault(c) THEN FALSE
    ELSE HasDefault(c) \/ ~IsNullable(c) \/ IsComputed(c)

\* Variant: no NULL-default check.
ColumnNeedsBackfill_NoNullDefaultCheck(c) ==
    IF IsVirtual(c) THEN FALSE
    ELSE IF Dropped(c) THEN TRUE
    ELSE HasDefault(c) \/ ~IsNullable(c) \/ IsComputed(c)

\* Variant: computed status is not looked at.
ColumnNeedsBackfill_NoComputed(c) ==
    IF IsVirtual(c) THEN FALSE
    ELSE IF Dropped(c) THEN TRUE
    ELSE IF HasNullDefault(c) THEN FALSE
    ELSE HasDefault(c) \/ ~IsNullable(c)

\* Variant: nullability is not looked at.
ColumnNeedsBackfill_NoNullable(c) ==
    IF IsVirtual(c) THEN FALSE
    ELSE IF Dropped(c) THEN TRUE
    ELSE IF HasNullDefault(c) THEN FALSE
    ELSE HasDefault(c) \/ IsComputed(c)

ColumnNeedsBackfill(c) ==
    IF IsVirtual(c) THEN FALSE
    ELSE IF Dropped(c) THEN TRUE
    ELSE IF HasNullDefault(c) THEN FALSE
    ELSE HasDefault(c) \/ ~IsNullable(c) \/ IsComputed(c)

ColumnNeedsBackfillCall ==
    /\ pc = "idle"
    /\ \E c \in Columns :
          /\ col' = c
          /\ ret' = ColumnNeedsBackfill(c)
    /\ op' = "ColumnNeedsBackfill"
    /\ pc' = "done"
    /\ UNCHANGED <<others, desc, opts, slice, i, calls, test>>

-----------------------------------------------------------------------------
(* UserDefinedTypeColsHaveSameVersion *)

\* Largest number of user-defined-type columns of a descriptor.
MaxUDTCols == 2

\* TypeMeta.Version values of a user-defined type.
Versions == {1, 2}

\* TableDescriptor.UserDefinedTypeColumns: the columns whose type is user
\* defined, by the version of the type metadata each carries.
UserDefinedTypeColumns ==
    UNION {[1..n -> [Version : Versions]] : n \in 0..MaxUDTCols}

\* Entry: otherCols is read once, then `range desc.UserDefinedTypeColumns()`.
UserDefinedTypeColsHaveSameVersionCall ==
    /\ pc = "idle"
    /\ \E a \in UserDefinedTypeColumns : slice' = a
    /\ \E b \in UserDefinedTypeColumns : otherCols' = b
    /\ op' = "UserDefinedTypeColsHaveSameVersion"
    /\ pc' = "loop"
    /\ UNCHANGED <<desc, opts, i, calls, test, col, ret, mutations, receiver, elem>>

\* Variant: versions differ only when this one is newer.
VersionsDiffer_Newer(this, other) == this.Version > other.Version

\* The condition this.TypeMeta.Version != other.TypeMeta.Version.
VersionsDiffer(this, other) == this.Version # other.Version

\* Loop iteration with otherCols[i] in range: compare the two versions.
UserDefinedTypeColsHaveSameVersionCompare ==
    /\ pc = "loop" /\ op = "UserDefinedTypeColsHaveSameVersion"
    /\ i < Len(slice)
    /\ i < Len(otherCols)
    /\ IF VersionsDiffer(slice[i + 1], otherCols[i + 1])
          THEN /\ ret' = FALSE
               /\ pc' = "done"
               /\ i' = i
          ELSE /\ i' = i + 1
               /\ UNCHANGED <<pc, ret>>
    /\ UNCHANGED <<desc, op, opts, slice, calls, test, col, otherCols, mutations, receiver, elem>>

\* Variant: a missing column of otherDesc counts as a mismatch.
UserDefinedTypeColsHaveSameVersionOutOfRange_ReturnFalse ==
    /\ pc = "loop" /\ op = "UserDefinedTypeColsHaveSameVersion"
    /\ i < Len(slice)
    /\ i >= Len(otherCols)
    /\ ret' = FALSE
    /\ pc' = "done"
    /\ UNCHANGED <<desc, op, opts, slice, i, calls, test, col, otherCols, mutations, receiver, elem>>

\* Loop iteration with otherCols[i] out of range: the index expression
\* panics (runtime error: index out of range) and the call does not return.
UserDefinedTypeColsHaveSameVersionOutOfRange ==
    /\ pc = "loop" /\ op = "UserDefinedTypeColsHaveSameVersion"
    /\ i < Len(slice)
    /\ i >= Len(otherCols)
    /\ pc' = "panic"
    /\ UNCHANGED <<desc, op, opts, slice, i, calls, test, col, ret, otherCols, mutations, receiver, elem>>

\* The range is exhausted: return true.
UserDefinedTypeColsHaveSameVersionReturn ==
    /\ pc = "loop" /\ op = "UserDefinedTypeColsHaveSameVersion"
    /\ i = Len(slice)
    /\ ret' = TRUE
    /\ pc' = "done"
    /\ UNCHANGED <<desc, op, opts, slice, i, calls, test, col, otherCols, mutations, receiver, elem>>

-----------------------------------------------------------------------------
(* HasConcurrentSchemaChanges *)

MutationKinds == {"Column", "Index", "Constraint", "PrimaryKeySwap",
                  "ComputedColumnSwap", "MaterializedViewRefresh"}

\* The sub-phases a pending mutation of the given kind and direction can be in.
MutationStates(kind, dir) ==
    IF kind = "Index" /\ dir = "ADD"
        THEN {"DELETE_ONLY", "WRITE_AND_DELETE_ONLY", "BACKFILLING", "MERGING"}
        ELSE {"DELETE_ONLY", "WRITE_AND_DELETE_ONLY"}

\* The pending mutations that are not on an index.
OtherMutations ==
    UNION {[Kind : {k}, Direction : {dir}, State : MutationStates(k, dir)] :
              k \in MutationKinds \ {"Index"}, dir \in {"ADD", "DROP"}}

\* The mutation sequences of a snapshot: its index mutations, each in one of
\* its sub-phases, followed by at most one mutation of another kind.
AllMutations(d) ==
    {im \o om :
        im \in {q \in [1..Len(d.Mutations) -> [Kind : {"Index"},
                                               Direction : {"ADD", "DROP"},
                                               State : MutationStates("Index", "ADD")]] :
                  \A j \in 1..Len(d.Mutations) :
                      /\ q[j].Direction = d.Mutations[j].Direction
                      /\ q[j].State \in MutationStates("Index", q[j].Direction)},
        om \in {<<>>} \cup {<<m>> : m \in OtherMutations}}

\* Variant: only index mutations count.
HasConcurrentSchemaChanges_IndexOnly(ms) ==
    Len(SelectSeq(ms, LAMBDA m : m.Kind = "Index")) > 0

\* len(table.AllMutations()) > 0, ms being table.AllMutations().
HasConcurrentSchemaChanges(ms) == Len(ms) > 0

HasConcurrentSchemaChangesCall ==
    /\ pc = "idle"
    /\ \E ms \in AllMutations(desc) :
          /\ mutations' = ms
          /\ ret' = HasConcurrentSchemaChanges(ms)
    /\ op' = "HasConcurrentSchemaChanges"
    /\ pc' = "done"
    /\ UNCHANGED <<desc, opts, slice, i, calls, test, col, otherCols, receiver, elem>>

-----------------------------------------------------------------------------
(* Index.Ordinal *)

\* The ordinal of an index of d: its position in d.AllIndexes(), from 0.
Ordinal(d, x) ==
    CHOOSE n \in 0..(Len(AllIndexes(d)) - 1) : AllIndexes(d)[n + 1] = x

OrdinalCall ==
    /\ pc = "idle"
    /\ \E x \in {desc.PrimaryIndex}
                  \cup {desc.Indexes[j] : j \in 1..Len(desc.Indexes)}
                  \cup {desc.Mutations[j] : j \in 1..Len(desc.Mutations)} :
          /\ receiver' = x
          /\ ret' = Ordinal(desc, x)
    /\ op' = "Ordinal"
    /\ pc' = "done"
    /\ UNCHANGED <<desc, opts, slice, i, calls, test, col, otherCols, mutations, elem>>

-----------------------------------------------------------------------------
(* Mutation status of a table element, and the lifecycle that sets it *)

\* descpb.InvalidMutationID
InvalidMutationID == 0

\* Largest mutation ID handed to a schema change.
MaxMutationID == 2

ElementKinds == {"Column", "Index", "Constraint"}

\* TableElementMaybeMutation: the status queries of an element.
IsMutation(e) ==
    e.State \in {"DELETE_ONLY", "WRITE_AND_DELETE_ONLY", "BACKFILLING", "MERGING"}
IsRollback(e) == e.Rollback
MutationID(e) == e.MutationID
WriteAndDeleteOnly(e) == e.State = "WRITE_AND_DELETE_ONLY"
DeleteOnly(e) == e.State = "DELETE_ONLY"
Backfilling(e) == e.State = "BACKFILLING"
Merging(e) == e.State = "MERGING"

\* A public element of the given kind.
PublicElement(kind) ==
    [Kind |-> kind, State |-> "PUBLIC", Direction |-> "NONE",
     MutationID |-> InvalidMutationID, Rollback |-> FALSE]

\* An element that was dropped for good.
RemovedElement(kind) ==
    [Kind |-> kind, State |-> "REMOVED", Direction |-> "NONE",
     MutationID |-> InvalidMutationID, Rollback |-> FALSE]

\* A schema change queues an add mutation: ABSENT -> DELETE_ONLY.
ElementBeginAdd ==
    /\ pc = "idle"
    /\ \E kind \in ElementKinds, id \in 1..MaxMutationID :
          elem' = [Kind |-> kind, State |-> "DELETE_ONLY", Direction |-> "ADD",
                   MutationID |-> id, Rollback |-> FALSE]
    /\ op' = "lifecycle"
    /\ pc' = "lifecycle"
    /\ UNCHANGED <<desc, opts, slice, i, calls, test, col, ret, otherCols, mutations, receiver>>

\* A schema change queues a drop mutation on a public element:
\* PUBLIC -> WRITE_AND_DELETE_ONLY.
ElementBeginDrop ==
    /\ \/ pc = "idle"
       \/ pc = "lifecycle" /\ elem.State = "PUBLIC"
    /\ \E kind \in ElementKinds, id \in 1..MaxMutationID :
          /\ pc = "lifecycle" => kind = elem.Kind
          /\ elem' = [Kind |-> kind, State |-> "WRITE_AND_DELETE_ONLY",
                      Direction |-> "DROP", MutationID |-> id, Rollback |-> FALSE]
    /\ op' = "lifecycle"
    /\ pc' = "lifecycle"
    /\ UNCHANGED <<desc, opts, slice, i, calls, test, col, ret, otherCols, mutations, receiver>>

\* The sub-phase after st on the add path; "PUBLIC" when st is the last one.
\* BACKFILLING and MERGING are sub-phases of indexes only.
NextAddState(kind, st) ==
    IF st = "DELETE_ONLY" THEN "WRITE_AND_DELETE_ONLY"
    ELSE IF st = "WRITE_AND_DELETE_ONLY" /\ kind = "Index" THEN "BACKFILLING"
    ELSE IF st = "BACKFILLING" THEN "MERGING"
    ELSE "PUBLIC"

\* An add mutation moves to its next sub-phase.
ElementAddStep ==
    /\ pc = "lifecycle"
    /\ IsMutation(elem) /\ Adding(elem)
    /\ NextAddState(elem.Kind, elem.State) # "PUBLIC"
    /\ elem' = [elem EXCEPT !.State = NextAddState(elem.Kind, elem.State)]
    /\ UNCHANGED <<desc, pc, op, opts, slice, i, calls, test, col, ret, otherCols, mutations, receiver>>

\* Variant: the element is made public and keeps the ID of its mutation.
ElementPublish_KeepsMutationID ==
    /\ pc = "lifecycle"
    /\ IsMutation(elem) /\ Adding(elem)
    /\ NextAddState(elem.Kind, elem.State) = "PUBLIC"
    /\ elem' = [PublicElement(elem.Kind) EXCEPT !.MutationID = elem.MutationID]
    /\ UNCHANGED <<desc, pc, op, opts, slice, i, calls, test, col, ret, otherCols, mutations, receiver>>

\* An add mutation completes: the element leaves the mutation queue and is
\* public.
ElementPublish ==
    /\ pc = "lifecycle"
    /\ IsMutation(elem) /\ Adding(elem)
    /\ NextAddState(elem.Kind, elem.State) = "PUBLIC"
    /\ elem' = PublicElement(elem.Kind)
    /\ UNCHANGED <<desc, pc, op, opts, slice, i, calls, test, col, ret, otherCols, mutations, receiver>>

\* A drop mutation moves to delete-only.
ElementDropStep ==
    /\ pc = "lifecycle"
    /\ IsMutation(elem) /\ Dropped(elem)
    /\ elem.State # "DELETE_ONLY"
    /\ elem' = [elem EXCEPT !.State = "DELETE_ONLY"]
    /\ UNCHANGED <<desc, pc, op, opts, slice, i, calls, test, col, ret, otherCols, mutations, receiver>>

\* A drop mutation completes: the element is removed.
ElementRemove ==
    /\ pc = "lifecycle"
    /\ IsMutation(elem) /\ Dropped(elem)
    /\ elem.State = "DELETE_ONLY"
    /\ elem' = RemovedElement(elem.Kind)
    /\ UNCHANGED <<desc, pc, op, opts, slice, i, calls, test, col, ret, otherCols, mutations, receiver>>

\* A failed mutation is reversed in place: an add behaves as a drop and a
\* drop as an add from then on, under the same mutation ID; the sub-phase is
\* kept, or an index being backfilled or merged goes back to write-only.
ElementRollback ==
    /\ pc = "lifecycle"
    /\ IsMutation(elem) /\ ~IsRollback(elem)
    /\ \E st \in {elem.State} \cup
                 (IF elem.State \in {"BACKFILLING", "MERGING"}
                     THEN {"WRITE_AND_DELETE_ONLY"} ELSE {}) :
          elem' = [elem EXCEPT !.Direction = IF Adding(elem) THEN "DROP" ELSE "ADD",
                               !.Rollback = TRUE,
                               !.State = st]
    /\ UNCHANGED <<desc, pc, op, opts, slice, i, calls, test, col, ret, otherCols, mutations, receiver>>

-----------------------------------------------------------------------------
Next ==
    \/ ForEachIndexCall
    \/ ForEachIndexSkip
    \/ ForEachIndexVisit
    \/ ForEachIndexReturn
    \/ forEachIndexCall
    \/ forEachIndexVisit
    \/ forEachIndexReturn
    \/ FindIndexCall
    \/ FindIndexSkip
    \/ FindIndexTest
    \/ FindIndexReturn
    \/ findIndexCall
    \/ findIndexTest
    \/ findIndexReturn
    \/ ColumnNeedsBackfillCall
    \/ UserDefinedTypeColsHaveSameVersionCall
    \/ UserDefinedTypeColsHaveSameVersionCompare
    \/ UserDefinedTypeColsHaveSameVersionOutOfRange
    \/ UserDefinedTypeColsHaveSameVersionReturn
    \/ HasConcurrentSchemaChangesCall
    \/ OrdinalCall
    \/ ElementBeginAdd
    \/ ElementBeginDrop
    \/ ElementAddStep
    \/ ElementPublish
    \/ ElementDropStep
    \/ ElementRemove
    \/ ElementRollback

Spec == Init /\ [][Next]_vars

-----------------------------------------------------------------------------
(* Properties *)

\* The indexes the callback has been called on, in call order.
Visited == [k \in 1..Len(calls) |-> calls[k].idx]

\* Membership in the search set selected by opts, as documented for IndexOpts:
\* the primary index of a non-physical table only with NonPhysicalPrimaryIndex,
\* add mutations only with AddMutations, drop mutations only with DropMutations.
InSearchSet(idx) ==
    /\ (Primary(idx) /\ ~IsPhysicalTable(desc)) => opts.NonPhysicalPrimaryIndex
    /\ Adding(idx) => opts.AddMutations
    /\ Dropped(idx) => opts.DropMutations

\* The view a call traverses: the search set in canonical order for
\* ForEachIndex and FindIndex, the slice handed over for the helpers.
TraversedView ==
    IF op \in {"ForEachIndex", "FindIndex"}
        THEN SelectSeq(AllIndexes(desc), InSearchSet)
        ELSE slice

IsForEach == op = "ForEachIndex" \/ op \in ForEachHelpers
IsFind == op = "FindIndex" \/ op \in FindHelpers

\* C1: early termination is success. If the visitor returns the early-stop
\* signal on its k-th call, the calls made are exactly the first k elements of
\* the traversed view in order, no further call is made, and the traversal
\* has returned nil.
C1_EarlyTerminationIsSuccess ==
    IsForEach =>
        \A k \in 1..Len(calls) :
            calls[k].out = StopIteration =>
                /\ pc = "done"
                /\ ret = nil
                /\ Len(calls) = k
                /\ Visited = SubSeq(TraversedView, 1, k)

\* C1 witness: a helper over a view [a, b, c] whose visitor stopped on b.
C1_Witness ==
    /\ op \in ForEachHelpers /\ pc = "done"
    /\ Len(slice) = 3
    /\ Len(calls) = 2
    /\ calls[1].out = nil /\ calls[2].out = StopIteration
    /\ ret = nil

\* C2: genuine errors abort traversal. If the visitor returns an error other
\* than the early-stop signal on its k-th call, the traversal has returned
\* that same error and no further call is made.
C2_GenuineErrorsAbort ==
    IsForEach =>
        \A k \in 1..Len(calls) :
            calls[k].out \in Errors =>
                /\ pc = "done"
                /\ ret = calls[k].out
                /\ Len(calls) = k

\* C2 witness: ForEachIndex whose visitor failed on the second of at least
\* three indexes of the search set.
C2_Witness ==
    /\ op = "ForEachIndex" /\ pc = "done"
    /\ Len(TraversedView) = 3
    /\ Len(calls) = 2
    /\ calls[2].out = "err2"
    /\ ret = "err2"

\* C3: view-subset law for ForEachIndex. With a visitor that never returns an
\* error, the indexes visited are exactly the indexes of AllIndexes() in the
\* search set, in canonical order; add mutations are visited only with
\* AddMutations and drop mutations only with DropMutations.
C3_ViewSubsetLaw ==
    (op = "ForEachIndex" /\ pc = "done" /\ \A k \in 1..Len(calls) : calls[k].out = nil) =>
        /\ Visited = SelectSeq(AllIndexes(desc), InSearchSet)
        /\ \A k \in 1..Len(Visited) :
              /\ Adding(Visited[k]) => opts.AddMutations
              /\ Dropped(Visited[k]) => opts.DropMutations
        /\ \A j, k \in 1..Len(Visited) : Visited[j] = Visited[k] => j = k

\* C3 witness: a full traversal that visited an add mutation and skipped a
\* drop mutation.
C3_Witness ==
    /\ op = "ForEachIndex" /\ pc = "done" /\ ret = nil
    /\ \A k \in 1..Len(calls) : calls[k].out = nil
    /\ \E k \in 1..Len(calls) : Adding(calls[k].idx)
    /\ \E j \in 1..Len(slice) :
          /\ Dropped(slice[j])
          /\ \A k \in 1..Len(calls) : calls[k].idx # slice[j]
    /\ i = Len(slice)

\* Whether the loop of ForEachIndex / FindIndex is past the primary index.
PastPrimary == i >= 1 \/ pc = "done"

PrimaryVisited == \E k \in 1..Len(calls) : Primary(calls[k].idx)

\* C4: primary-index exclusion rule. In ForEachIndex and FindIndex the
\* primary index is never handed to the callback when the table is not
\* physical and NonPhysicalPrimaryIndex is unset; when the table is physical
\* or the option is set, it is handed to the callback unless the add/drop
\* options exclude it.
C4_PrimaryIndexExclusion ==
    op \in {"ForEachIndex", "FindIndex"} =>
        /\ (~IsPhysicalTable(desc) /\ ~opts.NonPhysicalPrimaryIndex) => ~PrimaryVisited
        /\ (PastPrimary /\ (IsPhysicalTable(desc) \/ opts.NonPhysicalPrimaryIndex)) =>
              (PrimaryVisited <=>
                  /\ Adding(desc.PrimaryIndex) => opts.AddMutations
                  /\ Dropped(desc.PrimaryIndex) => opts.DropMutations)

\* C4 witness: a traversal of a non-physical table without the option that
\* went past the primary index and visited another index.
C4_Witness ==
    /\ op = "ForEachIndex" /\ pc = "done"
    /\ ~IsPhysicalTable(desc) /\ ~opts.NonPhysicalPrimaryIndex
    /\ Len(calls) >= 1
    /\ ~PrimaryVisited

\* The elements of the traversed view on which test is true.
Matches == SelectSeq(TraversedView, LAMBDA x : x.ID \in test)

\* C5: FindIndex / findIndex return the first element of the traversed view
\* on which test is true, nil exactly when there is none; test is evaluated
\* only on elements of the view, in order, and on none after the returned one.
C5_FindFirst ==
    IsFind =>
        /\ Len(calls) <= Len(TraversedView)
        /\ Visited = SubSeq(TraversedView, 1, Len(calls))
        /\ pc = "done" =>
              /\ ret = (IF Matches = <<>> THEN NilIndex ELSE Matches[1])
              /\ (ret = NilIndex) <=> (\A k \in 1..Len(TraversedView) :
                                           TraversedView[k].ID \notin test)
              /\ ret # NilIndex => /\ calls # <<>>
                                   /\ calls[Len(calls)].idx = ret
              /\ ret = NilIndex => Visited = TraversedView

\* C5 witness: FindIndex skipped an index outside the search set, tested one
\* that failed the test and returned a later one, with a further match behind.
C5_Witness ==
    /\ op = "FindIndex" /\ pc = "done"
    /\ ret # NilIndex
    /\ Len(calls) = 2
    /\ Len(TraversedView) < Len(slice)
    /\ Len(Matches) >= 1
    /\ ret.ID > 2

IsBackfillCall == op = "ColumnNeedsBackfill" /\ pc = "done"

\* C6: ColumnNeedsBackfill is false for every virtual column.
C6_VirtualNeverBackfills ==
    (IsBackfillCall /\ col.IsVirtual) => ret = FALSE

\* C6 witness: a dropped, non-nullable, computed virtual column.
C6_Witness ==
    /\ IsBackfillCall
    /\ col.IsVirtual /\ col.Direction = "DROP" /\ ~col.Nullable /\ col.IsComputed
    /\ ret = FALSE

\* C7: ColumnNeedsBackfill is true for every dropped, non-virtual column.
C7_DroppedAlwaysBackfills ==
    (IsBackfillCall /\ col.Direction = "DROP" /\ ~col.IsVirtual) => ret = TRUE

\* C7 witness: a dropped, nullable, stored column with DEFAULT NULL.
C7_Witness ==
    /\ IsBackfillCall
    /\ col.Direction = "DROP" /\ ~col.IsVirtual
    /\ col.DefaultExpr = "NULL" /\ col.Nullable /\ ~col.IsComputed
    /\ ret = TRUE

\* C8: ColumnNeedsBackfill is false for every added column whose default
\* expression is an explicit NULL.
C8_AddedNullDefaultNoBackfill ==
    (IsBackfillCall /\ col.Direction = "ADD" /\ col.DefaultExpr = "NULL") => ret = FALSE

\* C8 witness: an added, stored, non-nullable column with DEFAULT NULL.
C8_Witness ==
    /\ IsBackfillCall
    /\ col.Direction = "ADD" /\ col.DefaultExpr = "NULL"
    /\ ~col.IsVirtual /\ ~col.Nullable
    /\ ret = FALSE

\* C9 as claimed: ColumnNeedsBackfill is true for every added computed column.
C9_AddedComputedBackfills_Original ==
    (IsBackfillCall /\ col.Direction = "ADD" /\ col.IsComputed) => ret = TRUE

\* C9, amended: ColumnNeedsBackfill is true for every added computed column
\* that is not virtual and whose default expression is not an explicit NULL.
C9_AddedStoredComputedBackfills ==
    (IsBackfillCall /\ col.Direction = "ADD" /\ col.IsComputed
        /\ ~col.IsVirtual /\ col.DefaultExpr # "NULL") => ret = TRUE

\* C9 witness: an added, stored, nullable computed column without default.
C9_Witness ==
    /\ IsBackfillCall
    /\ col.Direction = "ADD" /\ col.IsComputed
    /\ ~col.IsVirtual /\ col.DefaultExpr = "none" /\ col.Nullable
    /\ ret = TRUE

\* C10: ColumnNeedsBackfill is true for every added, non-virtual column that
\* is non-nullable and has no default expression.
C10_AddedNotNullNoDefaultBackfills ==
    (IsBackfillCall /\ col.Direction = "ADD" /\ ~col.IsVirtual
        /\ ~col.Nullable /\ col.DefaultExpr = "none") => ret = TRUE

\* C10 witness: an added, stored, non-nullable, non-computed column without
\* default.
C10_Witness ==
    /\ IsBackfillCall
    /\ col.Direction = "ADD" /\ ~col.IsVirtual
    /\ ~col.Nullable /\ col.DefaultExpr = "none" /\ ~col.IsComputed
    /\ ret = TRUE

IsTypeVersionCall == op = "UserDefinedTypeColsHaveSameVersion"

\* The positions at which both descriptors have a user-defined-type column
\* and the two versions are equal / all positions of the first are such.
SameVersionUpTo(n) == \A k \in 1..n : slice[k].Version = otherCols[k].Version

\* C11: on two descriptors with the same number of user-defined-type columns
\* UserDefinedTypeColsHaveSameVersion returns, and returns true exactly when
\* the versions are equal at every position.
C11_SameVersionIffAllEqual ==
    (IsTypeVersionCall /\ Len(slice) = Len(otherCols)) =>
        /\ pc # "panic"
        /\ pc = "done" => (ret = TRUE <=> SameVersionUpTo(Len(slice)))
        /\ pc = "loop" => SameVersionUpTo(i)

\* C11 witness: two columns each, the versions differ at the second position
\* only, and the call returned false.
C11_Witness ==
    /\ IsTypeVersionCall /\ pc = "done"
    /\ Len(slice) = 2 /\ Len(otherCols) = 2
    /\ slice[1].Version = otherCols[1].Version
    /\ slice[2].Version # otherCols[2].Version
    /\ ret = FALSE

\* C15: only the positions of the first descriptor's columns are compared.
\* With more columns in the second descriptor the result is decided by the
\* first descriptor's positions alone; with fewer and no mismatch among the
\* positions the second has, the call never returns: it fails with an
\* out-of-range access at the first missing position.  An out-of-range
\* access happens in no other case.
C15_ComparesFirstDescriptorPositions ==
    IsTypeVersionCall =>
        /\ (Len(otherCols) > Len(slice) /\ pc = "done") =>
              (ret = TRUE <=> SameVersionUpTo(Len(slice)))
        /\ (Len(otherCols) > Len(slice)) => pc # "panic"
        /\ (Len(otherCols) < Len(slice) /\ SameVersionUpTo(Len(otherCols))) =>
              /\ pc # "done"
              /\ i <= Len(otherCols)
              /\ pc = "panic" => i = Len(otherCols)
        /\ pc = "panic" =>
              /\ Len(otherCols) < Len(slice)
              /\ SameVersionUpTo(Len(otherCols))

\* C15 witness: the second descriptor lacks the second column, the first
\* position agrees, and the call failed at the second position.
C15_Witness ==
    /\ IsTypeVersionCall /\ pc = "panic"
    /\ Len(slice) = 2 /\ Len(otherCols) = 1
    /\ slice[1].Version = otherCols[1].Version
    /\ i = 1

\* C15, second witness: true is returned for descriptors of different
\* lengths, the extra column of the second descriptor being ignored.
C15_WitnessExtraIgnored ==
    /\ IsTypeVersionCall /\ pc = "done"
    /\ Len(slice) = 1 /\ Len(otherCols) = 2
    /\ ret = TRUE

\* C12: HasConcurrentSchemaChanges returns true exactly when the mutation
\* sequence of the descriptor is non-empty, whatever the mutations are.
C12_ConcurrentIffAnyMutation ==
    (op = "HasConcurrentSchemaChanges" /\ pc = "done") =>
        (ret = TRUE <=> mutations # <<>>)

\* C12 witness: the only pending mutation is a dropped constraint in the
\* delete-only sub-phase, and the call returned true.
C12_Witness ==
    /\ op = "HasConcurrentSchemaChanges" /\ pc = "done"
    /\ Len(mutations) = 1
    /\ mutations[1].Kind = "Constraint"
    /\ mutations[1].Direction = "DROP"
    /\ mutations[1].State = "DELETE_ONLY"
    /\ ret = TRUE

\* C14: ordinal contiguity. The primary index has ordinal 0, the public
\* non-primary indexes have exactly the ordinals 1..k, k being their number,
\* the j-th index of the mutation queue has ordinal k + j, and the ordinal of
\* an index is its position in AllIndexes().
C14_OrdinalContiguity ==
    (op = "Ordinal" /\ pc = "done") =>
        LET k == Len(desc.Indexes)
        IN  /\ receiver = desc.PrimaryIndex <=> ret = 0
            /\ (\E j \in 1..k : receiver = desc.Indexes[j]) <=> ret \in 1..k
            /\ {Ordinal(desc, desc.Indexes[j]) : j \in 1..k} = 1..k
            /\ \A j \in 1..Len(desc.Mutations) :
                  receiver = desc.Mutations[j] <=> ret = k + j
            /\ ret < Len(AllIndexes(desc))
            /\ AllIndexes(desc)[ret + 1] = receiver

\* C14 witness: the ordinal of the mutation index of a snapshot with one
\* public non-primary index and one mutation index.
C14_Witness ==
    /\ op = "Ordinal" /\ pc = "done"
    /\ Len(desc.Indexes) = 1 /\ Len(desc.Mutations) = 1
    /\ receiver = desc.Mutations[1]
    /\ ret = 2

\* An element that exists on the descriptor: public or in a mutation.
ElementExists == op = "lifecycle" /\ elem.State # "REMOVED"

\* C13: mutually exclusive status. On the add path and on the drop path an
\* element is in a mutation exactly when its mutation ID is not the invalid
\* one, and a public element reports no sub-phase.
C13_MutuallyExclusiveStatus ==
    ElementExists =>
        /\ IsMutation(elem) <=> MutationID(elem) # InvalidMutationID
        /\ ~IsMutation(elem) =>
              /\ ~DeleteOnly(elem)
              /\ ~WriteAndDeleteOnly(elem)
              /\ ~Backfilling(elem)
              /\ ~Merging(elem)

\* C13 witness: an index that went through the add path and is public.
C13_Witness ==
    /\ op = "lifecycle"
    /\ elem.Kind = "Index"
    /\ elem.State = "PUBLIC"
    /\ ~IsMutation(elem)
    /\ MutationID(elem) = InvalidMutationID

=============================================================================
